---- MODULE Spec2Model ----
(***************************************************************************)
(* Model of src/compose/docker.go: tag resolution (findMostRecentTag,      *)
(* listImagesInDocker, listImagesInRegistry) and PullDockerImage with its  *)
(* background worker, pipe and error channel.                              *)
(***************************************************************************)
EXTENDS Naturals, Sequences, FiniteSets, TLC

VARIABLES
    image,      \* the *imagename.ImageName argument of PullDockerImage
    force,      \* the force argument
    pc,         \* position of the foreground (the caller's goroutine)
    list,       \* local variable list of PullDockerImage
    err,        \* local variable err of the resolution block
    local,      \* the list listImagesInDocker returned (before line 142 overwrites it)
    localErr,   \* the error listImagesInDocker returned
    recent,     \* findMostRecentTag's result: index into list, 0 for nil
    tag,        \* local variable tag
    calls,      \* calls made on the docker client / the registry hub, in order
    wpc,        \* position of the background worker (go func, lines 164-171)
    pullErr,    \* worker's local err: what client.PullImage returned
    pipe,       \* io.Pipe: the chunk a blocked Write is offering to the reader
    written,    \* number of chunks PullImage has written into the pipe
    wclosed,    \* pipeWriter.Close() has been called
    errch,      \* the buffered channel errch (capacity ErrchCap)
    sawEOF,     \* DisplayJSONMessagesStream hit io.EOF and returned nil
    sends,      \* number of sends on errch so far (line 170)
    recvs,      \* number of receives from errch so far (line 185)
    retRef,     \* returned *imagename.ImageName (NilImage for nil)
    retErr,     \* returned error ("nil" for nil)
    bpc,        \* position of GetBridgeIp ("idle" when it is not running)
    container,  \* container.ID of the dummy container ("" before it is created)
    bcalls,     \* container calls GetBridgeIp made on the docker client, in order
    ip,         \* named result ip of GetBridgeIp
    berr,       \* named result err of GetBridgeIp
    failures,   \* the errors GetBridgeIp met, in the order they occurred
    images      \* the images the docker daemon holds, each the sequence of its
                \* RepoTags, where a run fixes them beforehand (SpecList); <<>>
                \* where the answer to ListImages is drawn when the call is made

vars == <<image, force, pc, list, err, local, localErr, recent, tag, calls, wpc, pullErr,
          pipe, written, wclosed, errch, sawEOF, sends, recvs, retRef, retErr,
          bpc, container, bcalls, ip, berr, failures, images>>

-----------------------------------------------------------------------------
(* Bounds of the model *)

\* longest candidate list handed to findMostRecentTag on its own
MaxLen == 3
\* most tags the registry reports for the repository
MaxRegistry == 3
\* most images the docker daemon holds locally
MaxImages == 2
\* most RepoTags one local image carries
MaxRepoTags == 2
\* most progress chunks one PullImage call writes
MaxChunks == 2

\* faulty variant: errch is made without a buffer
ErrchCap_Unbuffered == Len(<<>>)

\* capacity of errch: make(chan error, 1)
ErrchCap == 1

-----------------------------------------------------------------------------
(* imagename.ImageName: name (with registry) and tag.  A tag is its text w  *)
(* together with what the imagename package parses out of it: a version v   *)
(* (<<>> when the text is no semantic version) or a version range [lo, hi)  *)
(* (<<>> when the text is no range).                                        *)

Latest == "latest"
Wildcard == "*"

Ver(a, b, c) == <<a, b, c>>
VerTag(text, a, b, c) == [w |-> text, v |-> Ver(a, b, c), lo |-> <<>>, hi |-> <<>>]
WordTag(text) == [w |-> text, v |-> <<>>, lo |-> <<>>, hi |-> <<>>]
RangeTag(text, from, to) == [w |-> text, v |-> <<>>, lo |-> from, hi |-> to]

New(name, t) == [name |-> name, tag |-> t]
NilImage == New("", WordTag(""))

HasVersion(img) == img.tag.v # <<>>
TagAsVersion(img) == img.tag.v
HasVersionRange(img) == img.tag.lo # <<>>
All(img) == img.tag.w = Wildcard
GetTag(img) == IF img.tag.w = "" THEN Latest ELSE img.tag.w
NameWithRegistry(img) == img.name

\* semantic version precedence (build metadata does not take part)
Less(a, b) ==
    \/ a[1] < b[1]
    \/ a[1] = b[1] /\ a[2] < b[2]
    \/ a[1] = b[1] /\ a[2] = b[2] /\ a[3] < b[3]

InRange(t, x) == ~Less(x, t.lo) /\ Less(x, t.hi)

\* image.Contains(b): same repository, and wildcard, or version within the
\* range, or the same tag
Contains(img, b) ==
    /\ b # NilImage
    /\ img.name = b.name
    /\ \/ All(img)
       \/ HasVersionRange(img) /\ HasVersion(b) /\ InRange(img.tag, TagAsVersion(b))
       \/ img.tag.w = b.tag.w

-----------------------------------------------------------------------------
(* findMostRecentTag, lines 221-252.  The result is the position of the    *)
(* returned candidate in list (the code returns the pointer), 0 for nil.   *)

\* faulty variant: the "latest" short cut is missing
Visit_NoLatest(img, lst, i, best) ==
    LET candidate == lst[i] IN
    IF ~Contains(img, candidate) THEN [img |-> best, ret |-> FALSE]
    ELSE IF best = 0 THEN [img |-> i, ret |-> FALSE]
    ELSE IF ~HasVersion(candidate) THEN [img |-> best, ret |-> FALSE]
    ELSE IF /\ HasVersion(lst[best]) /\ HasVersion(candidate)
            /\ Less(TagAsVersion(lst[best]), TagAsVersion(candidate))
         THEN [img |-> i, ret |-> FALSE]
    ELSE [img |-> best, ret |-> FALSE]

\* faulty variant: a candidate without a version displaces the current best
Visit_Displace(img, lst, i, best) ==
    LET candidate == lst[i] IN
    IF ~Contains(img, candidate) THEN [img |-> best, ret |-> FALSE]
    ELSE IF GetTag(candidate) = Latest THEN [img |-> i, ret |-> TRUE]
    ELSE IF best = 0 THEN [img |-> i, ret |-> FALSE]
    ELSE IF ~HasVersion(candidate) THEN [img |-> i, ret |-> FALSE]
    ELSE IF /\ HasVersion(lst[best]) /\ HasVersion(candidate)
            /\ Less(TagAsVersion(lst[best]), TagAsVersion(candidate))
         THEN [img |-> i, ret |-> FALSE]
    ELSE [img |-> best, ret |-> FALSE]

\* one iteration of the loop over list (lines 222-249): the new value of img
\* and whether the function returns from inside the loop
Visit(img, lst, i, best) ==
    LET candidate == lst[i] IN
    IF ~Contains(img, candidate) THEN [img |-> best, ret |-> FALSE]
    ELSE IF GetTag(candidate) = Latest THEN [img |-> i, ret |-> TRUE]
    ELSE IF best = 0 THEN [img |-> i, ret |-> FALSE]
    ELSE IF ~HasVersion(candidate) THEN [img |-> best, ret |-> FALSE]
    ELSE IF /\ HasVersion(lst[best]) /\ HasVersion(candidate)
            /\ Less(TagAsVersion(lst[best]), TagAsVersion(candidate))
         THEN [img |-> i, ret |-> FALSE]
    ELSE [img |-> best, ret |-> FALSE]

RECURSIVE Scan(_, _, _, _)
Scan(img, lst, i, best) ==
    IF i > Len(lst) THEN best
    ELSE LET r == Visit(img, lst, i, best) IN
         IF r.ret THEN r.img ELSE Scan(img, lst, i + 1, r.img)

findMostRecentTag(img, lst) == Scan(img, lst, 1, 0)

-----------------------------------------------------------------------------
(* Candidate listing *)

\* sequences over S of length at most n
SeqUpTo(S, n) == UNION {[1..k -> S] : k \in 0..n}

\* sequences over S of length at most n that name no element twice
DistinctSeqUpTo(S, n) ==
    {s \in SeqUpTo(S, n) : \A i, j \in 1..Len(s) : i # j => s[i] # s[j]}

\* faulty variant: the last contained RepoTag is taken, not the first
RECURSIVE FirstContained_FromEnd(_, _, _)
FirstContained_FromEnd(img, repoTags, j) ==
    IF j > Len(repoTags) THEN 0
    ELSE LET later == FirstContained_FromEnd(img, repoTags, j + 1) IN
         IF later # 0 THEN later
         ELSE IF Contains(img, repoTags[j]) THEN j ELSE 0

\* position of the first of an image's RepoTags that image contains, 0 if
\* none (inner loop, lines 208-214, with its break)
RECURSIVE FirstContained(_, _, _)
FirstContained(img, repoTags, j) ==
    IF j > Len(repoTags) THEN 0
    ELSE IF Contains(img, repoTags[j]) THEN j
    ELSE FirstContained(img, repoTags, j + 1)

\* lines 207-217: all is the daemon's answer, a sequence of images, each
\* the sequence of its RepoTags (parsed by imagename.NewFromString)
RECURSIVE listImagesInDocker(_, _)
listImagesInDocker(all, img) ==
    IF all = <<>> THEN <<>>
    ELSE LET repoTags == Head(all)
             j == FirstContained(img, repoTags, 1)
         IN (IF j = 0 THEN <<>> ELSE <<repoTags[j]>>)
                \o listImagesInDocker(Tail(all), img)

\* listImagesInRegistry, lines 192-197: whatever the hub reports
listImagesInRegistry(hubAnswer) == hubAnswer

-----------------------------------------------------------------------------
(* The values the model draws its inputs from *)

App == "app"
Other == "other"

T100 == VerTag("1.0.0", 1, 0, 0)
T120 == VerTag("1.2.0", 1, 2, 0)
T120b == VerTag("1.2.0+b1", 1, 2, 0)
T200 == VerTag("2.0.0", 2, 0, 0)
TLatest == WordTag(Latest)
TStable == WordTag("stable")
TEdge == WordTag("edge")
TRange1 == RangeTag("~1.x", Ver(1, 0, 0), Ver(2, 0, 0))
TAll == WordTag(Wildcard)

ExactImage == New(App, T100)
RangeImage == New(App, TRange1)
AllImage == New(App, TAll)
RangedImages == {RangeImage, AllImage}
Images == {ExactImage} \cup RangedImages

\* candidates findMostRecentTag is tried on
Candidates ==
    {New(App, t) : t \in {T100, T120, T120b, T200, TLatest, TStable, TEdge}}
        \cup {New(Other, T100)}
CandLists == SeqUpTo(Candidates, MaxLen)

\* what the registry holds for the repository, and the answers it gives
RegistryRefs == {New(App, t) : t \in {T100, T120, T200, TLatest}}
RegistryLists == DistinctSeqUpTo(RegistryRefs, MaxRegistry)

\* the RepoTags found on local images, and the daemon's states
LocalRefs == {New(App, T100), New(App, T200), New(App, TStable), New(Other, T100)}
DockerStates == SeqUpTo(SeqUpTo(LocalRefs, MaxRepoTags), MaxImages)

NoErr == "nil"
ErrListImages == "Failed to list all images"
ErrHubList == "hub list failed"
ErrPullImage == "pull failed"
ErrProcessStream == "Failed to process json stream"
ErrFailedToPull == "Failed to pull image"

Call(op, t) == [op |-> op, tag |-> t]
NoTag == WordTag("")

-----------------------------------------------------------------------------
(* PullDockerImage, lines 133-190 *)

resolveVars == <<list, err, local, localErr, recent, tag>>
streamVars == <<wpc, pullErr, pipe, written, wclosed, errch, sawEOF>>
retVars == <<retRef, retErr>>
chanVars == <<sends, recvs>>
bridgeVars == <<bpc, container, bcalls, ip, berr, failures>>

\* GetBridgeIp is not running
BridgeIdle ==
    /\ bpc = "idle" /\ container = "" /\ bcalls = <<>>
    /\ ip = "" /\ berr = NoErr /\ failures = <<>>

\* faulty variant: force does not send the resolution to the registry
NeedsRegistry_LocalFirst(lst, f) == Len(lst) = 0

\* faulty variant: an empty local list does not send the resolution to the registry
NeedsRegistry_ForceOnly(lst, f) == f

\* faulty variant: the registry is listed whatever the local list holds
NeedsRegistry_Always(lst, f) == TRUE

\* line 141
NeedsRegistry(lst, f) == Len(lst) = 0 \/ f

\* faulty variant: every image goes through tag resolution
NeedsResolution_Always(img) == TRUE

\* line 138
NeedsResolution(img) == HasVersionRange(img) \/ All(img)

\* the state PullDockerImage is entered in
Start(img, f) ==
    /\ image = img /\ force = f
    /\ pc = "start"
    /\ list = <<>> /\ err = NoErr /\ local = <<>> /\ localErr = NoErr
    /\ recent = 0
    /\ tag = img.tag
    /\ calls = <<>>
    /\ wpc = "none" /\ pullErr = NoErr /\ pipe = <<>> /\ written = 0
    /\ wclosed = FALSE /\ errch = <<>> /\ sawEOF = FALSE
    /\ sends = 0 /\ recvs = 0
    /\ retRef = NilImage /\ retErr = NoErr
    /\ BridgeIdle
    /\ images = <<>>

Init == \E img \in Images, f \in BOOLEAN : Start(img, f)

\* lines 138-141: list, err := listImagesInDocker(client, image); the daemon
\* answers ListImages with an error or with its images, one of answers
ListDockerFrom(answers) ==
    /\ pc = "start"
    /\ NeedsResolution(image)
    /\ calls' = Append(calls, Call("ListImages", NoTag))
    /\ \/ /\ list' = <<>>
          /\ err' = ErrListImages
       \/ /\ \E all \in answers : list' = listImagesInDocker(all, image)
          /\ err' = NoErr
    /\ local' = list'
    /\ localErr' = err'
    /\ pc' = IF NeedsRegistry(list', force) THEN "registry" ELSE "checkerr"
    /\ UNCHANGED <<image, force, recent, tag>>
    /\ UNCHANGED streamVars
    /\ UNCHANGED retVars
    /\ UNCHANGED chanVars
    /\ UNCHANGED bridgeVars
    /\ UNCHANGED images

\* the daemon may hold any images
ListDocker == ListDockerFrom(DockerStates)

\* the daemon holds images
ListDockerFixed == ListDockerFrom({images})

\* line 142: list, err = listImagesInRegistry(image)
ListRegistry ==
    /\ pc = "registry"
    /\ calls' = Append(calls, Call("HubList", NoTag))
    /\ \/ /\ list' = <<>>
          /\ err' = ErrHubList
       \/ /\ \E answer \in RegistryLists : list' = listImagesInRegistry(answer)
          /\ err' = NoErr
    /\ pc' = "checkerr"
    /\ UNCHANGED <<image, force, local, localErr, recent, tag>>
    /\ UNCHANGED streamVars
    /\ UNCHANGED retVars
    /\ UNCHANGED chanVars
    /\ UNCHANGED bridgeVars
    /\ UNCHANGED images

\* faulty variant: the listing error is noted but the pull goes on
ReturnListErr_FallsThrough ==
    /\ pc = "checkerr"
    /\ err # NoErr
    /\ retRef' = NilImage
    /\ retErr' = err
    /\ pc' = "pull"
    /\ UNCHANGED <<image, force, calls>>
    /\ UNCHANGED resolveVars
    /\ UNCHANGED streamVars
    /\ UNCHANGED chanVars
    /\ UNCHANGED bridgeVars
    /\ UNCHANGED images

\* lines 145-147: return nil, err
ReturnListErr ==
    /\ pc = "checkerr"
    /\ err # NoErr
    /\ retRef' = NilImage
    /\ retErr' = err
    /\ pc' = "returned"
    /\ UNCHANGED <<image, force, calls>>
    /\ UNCHANGED resolveVars
    /\ UNCHANGED streamVars
    /\ UNCHANGED chanVars
    /\ UNCHANGED bridgeVars
    /\ UNCHANGED images

\* lines 149-151
Resolve ==
    /\ pc = "checkerr"
    /\ err = NoErr
    /\ recent' = findMostRecentTag(image, list)
    /\ tag' = IF recent' # 0 THEN list[recent'].tag ELSE tag
    /\ pc' = "pull"
    /\ UNCHANGED <<image, force, list, err, local, localErr, calls>>
    /\ UNCHANGED streamVars
    /\ UNCHANGED retVars
    /\ UNCHANGED chanVars
    /\ UNCHANGED bridgeVars
    /\ UNCHANGED images

\* lines 154-171: pullOpts, errch and the go statement; an image with an
\* exact tag comes here straight from line 138
StartWorker ==
    /\ \/ pc = "pull"
       \/ pc = "start" /\ ~NeedsResolution(image)
    /\ wpc' = "start"
    /\ errch' = <<>>
    /\ pc' = "display"
    /\ UNCHANGED <<image, force, calls, pullErr, pipe, written, wclosed, sawEOF>>
    /\ UNCHANGED resolveVars
    /\ UNCHANGED retVars
    /\ UNCHANGED chanVars
    /\ UNCHANGED bridgeVars
    /\ UNCHANGED images

-----------------------------------------------------------------------------
(* The background worker, lines 164-171 *)

Chunks == {"ok", "bad"}

\* line 165: client.PullImage(pullOpts, *auth) is issued
PullCall ==
    /\ wpc = "start"
    /\ calls' = Append(calls, Call("PullImage", tag))
    /\ wpc' = "pulling"
    /\ UNCHANGED <<image, force, pc, pullErr, pipe, written, wclosed, errch, sawEOF>>
    /\ UNCHANGED resolveVars
    /\ UNCHANGED retVars
    /\ UNCHANGED chanVars
    /\ UNCHANGED bridgeVars
    /\ UNCHANGED images

\* PullImage writes a chunk of the progress stream to pullOpts.OutputStream;
\* a Write on an io.Pipe blocks until the reader has taken the data
PullWrite ==
    /\ wpc = "pulling"
    /\ written < MaxChunks
    /\ \E c \in Chunks : pipe' = <<c>>
    /\ written' = written + 1
    /\ wpc' = "writing"
    /\ UNCHANGED <<image, force, pc, calls, pullErr, wclosed, errch, sawEOF>>
    /\ UNCHANGED resolveVars
    /\ UNCHANGED retVars
    /\ UNCHANGED chanVars
    /\ UNCHANGED bridgeVars
    /\ UNCHANGED images

\* line 165: PullImage returns nil or an error
PullReturn ==
    /\ wpc = "pulling"
    /\ \E e \in {NoErr, ErrPullImage} : pullErr' = e
    /\ wpc' = "close"
    /\ UNCHANGED <<image, force, pc, calls, pipe, written, wclosed, errch, sawEOF>>
    /\ UNCHANGED resolveVars
    /\ UNCHANGED retVars
    /\ UNCHANGED chanVars
    /\ UNCHANGED bridgeVars
    /\ UNCHANGED images

\* faulty variant: the worker does not close the write end of the pipe
WorkerClose_Skipped ==
    /\ wpc = "close"
    /\ wpc' = "send"
    /\ UNCHANGED <<image, force, pc, calls, pullErr, pipe, written, wclosed, errch, sawEOF>>
    /\ UNCHANGED resolveVars
    /\ UNCHANGED retVars
    /\ UNCHANGED chanVars
    /\ UNCHANGED bridgeVars
    /\ UNCHANGED images

\* lines 166-168: pipeWriter.Close()
WorkerClose ==
    /\ wpc = "close"
    /\ wclosed' = TRUE
    /\ wpc' = "send"
    /\ UNCHANGED <<image, force, pc, calls, pullErr, pipe, written, errch, sawEOF>>
    /\ UNCHANGED resolveVars
    /\ UNCHANGED retVars
    /\ UNCHANGED chanVars
    /\ UNCHANGED bridgeVars
    /\ UNCHANGED images

\* faulty variant: the worker sends its result again and again
WorkerSend_Repeats ==
    /\ wpc = "send"
    /\ Len(errch) < ErrchCap
    /\ errch' = Append(errch, pullErr)
    /\ sends' = sends + 1
    /\ UNCHANGED <<image, force, pc, calls, wpc, pullErr, pipe, written, wclosed, sawEOF>>
    /\ UNCHANGED resolveVars
    /\ UNCHANGED retVars
    /\ UNCHANGED recvs
    /\ UNCHANGED bridgeVars
    /\ UNCHANGED images

\* line 170: errch <- err, which blocks while the channel is full
WorkerSend ==
    /\ wpc = "send"
    /\ Len(errch) < ErrchCap
    /\ errch' = Append(errch, pullErr)
    /\ wpc' = "done"
    /\ UNCHANGED <<image, force, pc, calls, pullErr, pipe, written, wclosed, sawEOF>>
    /\ UNCHANGED resolveVars
    /\ UNCHANGED retVars
    /\ sends' = sends + 1
    /\ UNCHANGED recvs
    /\ UNCHANGED bridgeVars
    /\ UNCHANGED images

Worker == PullCall \/ PullWrite \/ PullReturn \/ WorkerClose \/ WorkerSend

-----------------------------------------------------------------------------
(* The foreground from line 181 on *)

\* line 181: DisplayJSONMessagesStream reads a message it can decode and
\* display; the blocked Write returns
DisplayMessage ==
    /\ pc = "display"
    /\ pipe = <<"ok">>
    /\ pipe' = <<>>
    /\ wpc' = "pulling"
    /\ UNCHANGED <<image, force, pc, calls, pullErr, written, wclosed, errch, sawEOF>>
    /\ UNCHANGED resolveVars
    /\ UNCHANGED retVars
    /\ UNCHANGED chanVars
    /\ UNCHANGED bridgeVars
    /\ UNCHANGED images

\* lines 181-183: DisplayJSONMessagesStream fails on what it read; the
\* read end of the pipe is not closed
DisplayFails ==
    /\ pc = "display"
    /\ pipe = <<"bad">>
    /\ pipe' = <<>>
    /\ wpc' = "pulling"
    /\ retRef' = NilImage
    /\ retErr' = ErrProcessStream
    /\ pc' = "returned"
    /\ UNCHANGED <<image, force, calls, pullErr, written, wclosed, errch, sawEOF>>
    /\ UNCHANGED resolveVars
    /\ UNCHANGED chanVars
    /\ UNCHANGED bridgeVars
    /\ UNCHANGED images

\* line 181: the read end reports io.EOF once the write end is closed, and
\* DisplayJSONMessagesStream returns nil
DisplayEOF ==
    /\ pc = "display"
    /\ pipe = <<>>
    /\ wclosed
    /\ sawEOF' = TRUE
    /\ pc' = "recv"
    /\ UNCHANGED <<image, force, calls, wpc, pullErr, pipe, written, wclosed, errch>>
    /\ UNCHANGED resolveVars
    /\ UNCHANGED retVars
    /\ UNCHANGED chanVars
    /\ UNCHANGED bridgeVars
    /\ UNCHANGED images

\* faulty variant: the worker's error is dropped
Receive_IgnoresError ==
    /\ pc = "recv"
    /\ errch # <<>>
    /\ errch' = Tail(errch)
    /\ retRef' = New(NameWithRegistry(image), tag) /\ retErr' = NoErr
    /\ pc' = "returned"
    /\ recvs' = recvs + 1
    /\ UNCHANGED <<image, force, calls, wpc, pullErr, pipe, written, wclosed, sawEOF>>
    /\ UNCHANGED resolveVars
    /\ UNCHANGED sends
    /\ UNCHANGED bridgeVars
    /\ UNCHANGED images

\* lines 185-189: err := <-errch
Receive ==
    /\ pc = "recv"
    /\ errch # <<>>
    /\ errch' = Tail(errch)
    /\ IF Head(errch) # NoErr
         THEN retRef' = NilImage /\ retErr' = ErrFailedToPull
         ELSE retRef' = New(NameWithRegistry(image), tag) /\ retErr' = NoErr
    /\ pc' = "returned"
    /\ UNCHANGED <<image, force, calls, wpc, pullErr, pipe, written, wclosed, sawEOF>>
    /\ UNCHANGED resolveVars
    /\ recvs' = recvs + 1
    /\ UNCHANGED sends
    /\ UNCHANGED bridgeVars
    /\ UNCHANGED images

Foreground ==
    \/ ListDocker \/ ListRegistry \/ ReturnListErr \/ Resolve \/ StartWorker
    \/ DisplayMessage \/ DisplayFails \/ DisplayEOF \/ Receive

Next ==
    \/ ListDocker \/ ListRegistry \/ ReturnListErr \/ Resolve \/ StartWorker
    \/ PullCall \/ PullWrite \/ PullReturn \/ WorkerClose \/ WorkerSend
    \/ DisplayMessage \/ DisplayFails \/ DisplayEOF \/ Receive

Spec == Init /\ [][Next]_vars

\* a runnable goroutine is eventually run, and the docker daemon eventually
\* ends the pull
FairSpec == Spec /\ WF_vars(Foreground) /\ WF_vars(Worker)

-----------------------------------------------------------------------------
(* findMostRecentTag on its own: PullDockerImage at line 149 with a ranged   *)
(* or wildcard image, holding any candidate list the registry may have       *)
(* answered with                                                             *)

InitFind ==
    \E img \in RangedImages, f \in BOOLEAN, lst \in CandLists :
        /\ image = img /\ force = f
        /\ pc = "checkerr"
        /\ list = lst /\ err = NoErr /\ local = <<>> /\ localErr = NoErr
        /\ recent = 0
        /\ tag = img.tag
        /\ calls = <<Call("ListImages", NoTag), Call("HubList", NoTag)>>
        /\ wpc = "none" /\ pullErr = NoErr /\ pipe = <<>> /\ written = 0
        /\ wclosed = FALSE /\ errch = <<>> /\ sawEOF = FALSE
        /\ sends = 0 /\ recvs = 0
        /\ retRef = NilImage /\ retErr = NoErr
        /\ BridgeIdle
        /\ images = <<>>

NextFind == Resolve

SpecFind == InitFind /\ [][NextFind]_vars

-----------------------------------------------------------------------------
(* listImagesInDocker on its own: PullDockerImage at line 139 with a ranged  *)
(* or wildcard image, the daemon holding images                              *)

\* the references the daemon's images carry here: two versions of the
\* application and another repository's image
HeldRefs == {New(App, T100), New(App, T200), New(Other, T100)}
HeldStates == SeqUpTo(SeqUpTo(HeldRefs, MaxRepoTags), MaxImages)

InitList ==
    \E img \in RangedImages, f \in BOOLEAN, held \in HeldStates :
        /\ image = img /\ force = f
        /\ pc = "start"
        /\ list = <<>> /\ err = NoErr /\ local = <<>> /\ localErr = NoErr
        /\ recent = 0
        /\ tag = img.tag
        /\ calls = <<>>
        /\ wpc = "none" /\ pullErr = NoErr /\ pipe = <<>> /\ written = 0
        /\ wclosed = FALSE /\ errch = <<>> /\ sawEOF = FALSE
        /\ sends = 0 /\ recvs = 0
        /\ retRef = NilImage /\ retErr = NoErr
        /\ BridgeIdle
        /\ images = held

NextList == ListDockerFixed

SpecList == InitList /\ [][NextList]_vars

-----------------------------------------------------------------------------
(* GetBridgeIp, lines 84-127 *)

\* emptyImageName, line 32
EmptyImage == New("gliderlabs/alpine", VerTag("3.2", 3, 2, 0))

ContainerIDs == {"c1", "c2"}
Gateways == {"172.17.42.1"}

ErrInspectImage == "Failed to inspect image"
ErrCreate == "Failed to create dummy network container"
ErrStart == "Failed to start dummy network container"
ErrInspect == "Failed to inspect dummy network container"
ErrRemove == "remove container failed"

BCall(op, id) == [op |-> op, id |-> id]

pullVars == <<image, force, pc, list, err, local, localErr, recent, tag, calls,
              wpc, pullErr, pipe, written, wclosed, errch, sawEOF, sends, recvs,
              retRef, retErr>>

\* the state GetBridgeIp is entered in; image and force are the arguments
\* of its PullDockerImage call (line 89), which has not been made
InitBridge ==
    /\ image = EmptyImage /\ force = FALSE
    /\ pc = "idle"
    /\ list = <<>> /\ err = NoErr /\ local = <<>> /\ localErr = NoErr
    /\ recent = 0
    /\ tag = EmptyImage.tag
    /\ calls = <<>>
    /\ wpc = "none" /\ pullErr = NoErr /\ pipe = <<>> /\ written = 0
    /\ wclosed = FALSE /\ errch = <<>> /\ sawEOF = FALSE
    /\ sends = 0 /\ recvs = 0
    /\ retRef = NilImage /\ retErr = NoErr
    /\ bpc = "inspectImage" /\ container = "" /\ bcalls = <<>>
    /\ ip = "" /\ berr = NoErr /\ failures = <<>>
    /\ images = <<>>

\* lines 86-94: client.InspectImage(emptyImageName) finds the image, reports
\* "no such image" (PullDockerImage is entered), or fails otherwise
BridgeInspectImage ==
    /\ bpc = "inspectImage"
    /\ \/ /\ bpc' = "create"
          /\ UNCHANGED <<pc, berr, failures>>
       \/ /\ bpc' = "pull"
          /\ pc' = "start"
          /\ UNCHANGED <<berr, failures>>
       \/ /\ bpc' = "returned"
          /\ berr' = ErrInspectImage
          /\ failures' = Append(failures, ErrInspectImage)
          /\ UNCHANGED pc
    /\ UNCHANGED <<image, force, list, err, local, localErr, recent, tag, calls>>
    /\ UNCHANGED streamVars
    /\ UNCHANGED chanVars
    /\ UNCHANGED retVars
    /\ UNCHANGED <<container, bcalls, ip>>
    /\ UNCHANGED images

\* lines 89-91: PullDockerImage has returned
BridgePulled ==
    /\ bpc = "pull"
    /\ pc = "returned"
    /\ IF retErr # NoErr
         THEN /\ bpc' = "returned"
              /\ berr' = retErr
              /\ failures' = Append(failures, retErr)
         ELSE /\ bpc' = "create"
              /\ UNCHANGED <<berr, failures>>
    /\ UNCHANGED pullVars
    /\ UNCHANGED <<container, bcalls, ip>>
    /\ UNCHANGED images

\* lines 96-105: client.CreateContainer; on failure GetBridgeIp returns
\* before the cleanup is deferred
BridgeCreate ==
    /\ bpc = "create"
    /\ \/ /\ \E id \in ContainerIDs :
                /\ container' = id
                /\ bcalls' = Append(bcalls, BCall("CreateContainer", id))
          /\ bpc' = "startc"
          /\ UNCHANGED <<berr, failures>>
       \/ /\ bcalls' = Append(bcalls, BCall("CreateContainer", ""))
          /\ bpc' = "returned"
          /\ berr' = ErrCreate
          /\ failures' = Append(failures, ErrCreate)
          /\ UNCHANGED container
    /\ UNCHANGED pullVars
    /\ UNCHANGED ip
    /\ UNCHANGED images

\* faulty variant: a start failure returns without the cleanup
BridgeStart_NoCleanup ==
    /\ bpc = "startc"
    /\ bcalls' = Append(bcalls, BCall("StartContainer", container))
    /\ \/ /\ bpc' = "inspect"
          /\ UNCHANGED <<berr, failures>>
       \/ /\ bpc' = "returned"
          /\ berr' = ErrStart
          /\ failures' = Append(failures, ErrStart)
    /\ UNCHANGED pullVars
    /\ UNCHANGED <<container, ip>>
    /\ UNCHANGED images

\* lines 117-119: client.StartContainer; return "", err hands over to the
\* deferred cleanup
BridgeStart ==
    /\ bpc = "startc"
    /\ bcalls' = Append(bcalls, BCall("StartContainer", container))
    /\ \/ /\ bpc' = "inspect"
          /\ UNCHANGED <<berr, failures>>
       \/ /\ bpc' = "defer"
          /\ berr' = ErrStart
          /\ failures' = Append(failures, ErrStart)
    /\ UNCHANGED pullVars
    /\ UNCHANGED <<container, ip>>
    /\ UNCHANGED images

\* lines 121-126: client.InspectContainer, then one of the two returns
BridgeInspect ==
    /\ bpc = "inspect"
    /\ bcalls' = Append(bcalls, BCall("InspectContainer", container))
    /\ \/ /\ \E gw \in Gateways : ip' = gw
          /\ berr' = NoErr
          /\ UNCHANGED failures
       \/ /\ ip' = ""
          /\ berr' = ErrInspect
          /\ failures' = Append(failures, ErrInspect)
    /\ bpc' = "defer"
    /\ UNCHANGED pullVars
    /\ UNCHANGED container
    /\ UNCHANGED images

\* faulty variant: a removal error replaces whatever err holds
BridgeRemove_Overwrites ==
    /\ bpc = "defer"
    /\ bcalls' = Append(bcalls, BCall("RemoveContainer", container))
    /\ \/ UNCHANGED <<berr, failures>>
       \/ /\ berr' = ErrRemove
          /\ failures' = Append(failures, ErrRemove)
    /\ bpc' = "returned"
    /\ UNCHANGED pullVars
    /\ UNCHANGED <<container, ip>>
    /\ UNCHANGED images

\* lines 106-115: the deferred function: client.RemoveContainer, and
\* err = err2 only when err2 != nil && err == nil
BridgeRemove ==
    /\ bpc = "defer"
    /\ bcalls' = Append(bcalls, BCall("RemoveContainer", container))
    /\ \/ UNCHANGED <<berr, failures>>
       \/ /\ berr' = IF berr = NoErr THEN ErrRemove ELSE berr
          /\ failures' = Append(failures, ErrRemove)
    /\ bpc' = "returned"
    /\ UNCHANGED pullVars
    /\ UNCHANGED <<container, ip>>
    /\ UNCHANGED images

NextBridge ==
    \/ BridgeInspectImage \/ BridgePulled \/ BridgeCreate
    \/ BridgeStart \/ BridgeInspect \/ BridgeRemove
    \/ StartWorker
    \/ PullCall \/ PullWrite \/ PullReturn \/ WorkerClose \/ WorkerSend
    \/ DisplayMessage \/ DisplayFails \/ DisplayEOF \/ Receive

SpecBridge == InitBridge /\ [][NextBridge]_vars

-----------------------------------------------------------------------------
(* Properties *)

Called(op) == \E i \in 1..Len(calls) : calls[i].op = op

\* findMostRecentTag has returned (line 149 is behind the foreground)
Resolved == pc \in {"pull", "display", "recv"} \/ (pc = "returned" /\ wpc # "none")

ContainedAt(lst) == {i \in 1..Len(lst) : Contains(image, lst[i])}
VersionedAt(lst) == {i \in ContainedAt(lst) : HasVersion(lst[i])}
LatestAt(lst) == {i \in ContainedAt(lst) : GetTag(lst[i]) = Latest}
Min(S) == CHOOSE i \in S : \A j \in S : i <= j

Perms(n) == {p \in [1..n -> 1..n] : \A i, j \in 1..n : i # j => p[i] # p[j]}
Permute(lst, p) == [i \in 1..Len(lst) |-> lst[p[i]]]
TagFound(img, lst) ==
    LET r == findMostRecentTag(img, lst) IN IF r = 0 THEN NoTag ELSE lst[r].tag

\* C1: once the local listing has failed, the registry is not listed and no
\* pull is issued, and what PullDockerImage returns is that listing failure
C1_LocalFailureIsTerminal ==
    localErr # NoErr =>
        /\ ~Called("HubList")
        /\ ~Called("PullImage")
        /\ pc = "returned" => (retRef = NilImage /\ retErr = ErrListImages)

\* C2: a successful return for a ranged or wildcard image carries the tag of
\* a candidate the image contains, never the range or wildcard tag itself
C2_SuccessCarriesConcreteTag ==
    (pc = "returned" /\ retErr = NoErr /\ NeedsResolution(image)) =>
        /\ retRef # NilImage
        /\ retRef.tag # image.tag
        /\ \E i \in ContainedAt(list) : list[i].tag = retRef.tag

\* C3: when some contained candidate has a version, findMostRecentTag
\* returns a contained candidate whose version no other contained
\* candidate's version exceeds.  Stated for lists without a contained
\* "latest" (C5 covers those), so that what refutes it is the version
\* comparison alone.
C3_GreatestVersionReturned ==
    (pc = "pull" /\ VersionedAt(list) # {} /\ LatestAt(list) = {}) =>
        /\ recent \in VersionedAt(list)
        /\ \A j \in VersionedAt(list) :
              ~Less(TagAsVersion(list[recent]), TagAsVersion(list[j]))

\* C4: every permutation of the candidate list resolves to the same tag,
\* unless two contained candidates have equal versions.  Stated for lists
\* with at most one contained candidate without a version (two of them are
\* told apart by their order alone, which C9 describes).
C4_PermutationInvariant ==
    (/\ pc = "pull"
     /\ \A i, j \in VersionedAt(list) :
            i # j => TagAsVersion(list[i]) # TagAsVersion(list[j])
     /\ Cardinality(ContainedAt(list) \ VersionedAt(list)) <= 1) =>
        \A p \in Perms(Len(list)) :
            TagFound(image, Permute(list, p)) =
                (IF recent = 0 THEN NoTag ELSE list[recent].tag)

\* C5: a contained candidate tagged "latest" is the one returned, wherever
\* it stands in the list
C5_LatestWins ==
    (pc = "pull" /\ LatestAt(list) # {}) =>
        /\ recent \in LatestAt(list)
        /\ tag = list[recent].tag
        /\ tag.w = Latest

C5_Witness ==
    /\ pc = "pull"
    /\ image = AllImage
    /\ list = <<New(App, T200), New(App, TStable), New(App, TLatest)>>
    /\ recent = 3

\* C9 as claimed: when no contained candidate has a version,
\* findMostRecentTag returns the first contained candidate
C9_FirstContainedReturned ==
    (pc = "pull" /\ ContainedAt(list) # {} /\ VersionedAt(list) = {}) =>
        recent = Min(ContainedAt(list))

\* C9 as amended: when no contained candidate has a version,
\* findMostRecentTag returns the first contained "latest" if there is one
\* and the first contained candidate otherwise, and never nil
C9_FirstContainedOrLatest ==
    (pc = "pull" /\ ContainedAt(list) # {} /\ VersionedAt(list) = {}) =>
        /\ recent # 0
        /\ recent = IF LatestAt(list) # {} THEN Min(LatestAt(list))
                    ELSE Min(ContainedAt(list))

C9_Witness ==
    /\ pc = "pull"
    /\ image = AllImage
    /\ list = <<New(Other, T100), New(App, TStable), New(App, TEdge)>>
    /\ recent = 2


\* C6: for an image with an exact tag the only call made is the pull, with
\* exactly that tag; neither listing is invoked, whatever force is
C6_ExactTagSkipsListing ==
    ~(HasVersionRange(image) \/ All(image)) =>
        /\ ~Called("ListImages")
        /\ ~Called("HubList")
        /\ \A i \in 1..Len(calls) : calls[i] = Call("PullImage", image.tag)
        /\ (pc = "returned" /\ retErr = NoErr) => retRef = New(image.name, image.tag)

C6_Witness ==
    /\ image = ExactImage
    /\ force
    /\ pc = "returned"
    /\ retErr = NoErr
    /\ calls = <<Call("PullImage", T100)>>

\* C7: with force set, a ranged or wildcard image is resolved against the
\* registry's list alone: the registry is listed whatever the local list
\* holds, the tag pulled is the image's own or one the registry reported,
\* never one that only the local list holds; local [1.0.0] and registry
\* [2.0.0] under the wildcard give 2.0.0
C7_ForceResolvesFromRegistry ==
    (force /\ NeedsResolution(image) /\ Resolved) =>
        /\ Called("HubList")
        /\ tag # image.tag => \E j \in ContainedAt(list) : list[j].tag = tag
        /\ ~(/\ \E i \in 1..Len(local) : local[i].tag = tag
             /\ \A j \in 1..Len(list) : list[j].tag # tag)
        /\ (image = AllImage /\ local = <<New(App, T100)>> /\ list = <<New(App, T200)>>)
              => tag = T200
        /\ \A i \in 1..Len(calls) :
              calls[i].op = "PullImage" => calls[i].tag = tag

C7_Witness ==
    /\ force
    /\ image = AllImage
    /\ local = <<New(App, T100)>>
    /\ list = <<New(App, T200)>>
    /\ pc = "returned"
    /\ retRef = New(App, T200)
    /\ calls = <<Call("ListImages", NoTag), Call("HubList", NoTag), Call("PullImage", T200)>>

Scenario8 == <<New(App, T100), New(App, T120), New(App, TLatest)>>

PullFailedAfterProgress ==
    wpc \in {"close", "send", "done"} /\ pullErr = ErrPullImage /\ written > 0

WorkerStarted == wpc # "none"

\* C11 as claimed: errch is written at most once and read at most once, the
\* read coming after the stream processing, and whenever PullDockerImage
\* returns with the worker started the read has happened, on the
\* decode-failure path as on the end-of-stream path
C11_ReadOnceOnEveryPath ==
    /\ sends <= 1 /\ recvs <= 1
    /\ recvs = 1 => sawEOF
    /\ (pc = "returned" /\ WorkerStarted) => recvs = 1

\* C11 as amended: errch is written at most once, by the worker as its last
\* step, and read at most once, after the write and after the stream
\* processing ended; on the end-of-stream path both have happened exactly
\* once when PullDockerImage returns, on the decode-failure path the
\* foreground never reads errch
C11_ReadOnceAfterEOF ==
    /\ sends <= 1 /\ recvs <= 1 /\ recvs <= sends
    /\ sends = 1 <=> wpc = "done"
    /\ recvs = 1 => (sawEOF /\ pc = "returned")
    /\ (pc = "returned" /\ sawEOF) => (sends = 1 /\ recvs = 1 /\ errch = <<>>)
    /\ (pc = "returned" /\ WorkerStarted /\ ~sawEOF) =>
          (recvs = 0 /\ retErr = ErrProcessStream)

C11_Witness ==
    /\ pc = "returned"
    /\ retErr = ErrProcessStream
    /\ wpc = "done"
    /\ sends = 1 /\ recvs = 0
    /\ errch = <<pullErr>>

\* C12: the worker's send on errch can always go ahead, also when the
\* foreground has returned on a decode error, and the receive can go ahead
\* once the worker has finished
C12_ErrchNeverBlocks ==
    /\ wpc = "send" => (Len(errch) < ErrchCap /\ ENABLED WorkerSend)
    /\ (pc = "recv" /\ wpc = "done") => (errch # <<>> /\ ENABLED Receive)

C12_Witness ==
    /\ wpc = "send"
    /\ pc = "returned"
    /\ retErr = ErrProcessStream
    /\ errch = <<>>

\* C13: PullDockerImage returns a reference exactly when the stream ended
\* without a decode error and the worker reported no error; otherwise it
\* returns nil with the wrapped stream error or the wrapped pull error
C13_RefIffBothSucceed ==
    pc = "returned" =>
        /\ retRef # NilImage <=> (sawEOF /\ wpc = "done" /\ pullErr = NoErr)
        /\ retRef # NilImage => (retErr = NoErr /\ retRef = New(image.name, tag))
        /\ (WorkerStarted /\ ~sawEOF) => (retRef = NilImage /\ retErr = ErrProcessStream)
        /\ (sawEOF /\ pullErr # NoErr) => (retRef = NilImage /\ retErr = ErrFailedToPull)

C13_Witness ==
    /\ pc = "returned"
    /\ sawEOF
    /\ written = 0
    /\ pullErr = ErrPullImage
    /\ retRef = NilImage
    /\ retErr = ErrFailedToPull

PullCalls == {i \in 1..Len(calls) : calls[i].op = "PullImage"}

\* C14: a listing error that is returned ends PullDockerImage at once, with
\* no worker started and no pull issued; the pull is issued at most once,
\* after the resolution, with the resolved tag
C14_FailedResolutionStartsNothing ==
    /\ err # NoErr =>
          /\ pc \in {"registry", "checkerr", "returned"}
          /\ ~WorkerStarted
          /\ PullCalls = {}
          /\ pc = "returned" => (retRef = NilImage /\ retErr = err)
    /\ Cardinality(PullCalls) <= 1
    /\ WorkerStarted => pc \in {"display", "recv", "returned"}
    /\ \A i \in PullCalls :
          /\ WorkerStarted
          /\ wpc # "start"
          /\ calls[i].tag = tag
          /\ i = Len(calls)

C14_Witness ==
    /\ pc = "returned"
    /\ retErr = ErrHubList
    /\ wpc = "none"
    /\ calls = <<Call("ListImages", NoTag), Call("HubList", NoTag)>>


\* C17: without force, a ranged or wildcard image whose local listing holds
\* a candidate is resolved from that list: the registry is not listed and
\* the tag pulled is the tag of a local candidate
C17_LocalListSuffices ==
    (~force /\ NeedsResolution(image) /\ localErr = NoErr /\ Len(local) > 0) =>
        /\ ~Called("HubList")
        /\ list = local
        /\ Resolved =>
              /\ recent \in 1..Len(local)
              /\ tag = local[recent].tag
        /\ \A i \in PullCalls : \E j \in 1..Len(local) : calls[i].tag = local[j].tag

C17_Witness ==
    /\ ~force
    /\ image = AllImage
    /\ local = <<New(App, T100)>>
    /\ pc = "returned"
    /\ retRef = New(App, T100)
    /\ calls = <<Call("ListImages", NoTag), Call("PullImage", T100)>>

\* C18: errch holds the worker's result only when the write end of the pipe
\* is closed; the worker closes it after PullImage has returned and before
\* it sends, so no receive happens while the stream is open
C18_CloseThenSignal ==
    /\ errch # <<>> => wclosed
    /\ sends > 0 => wclosed
    /\ recvs > 0 => wclosed
    /\ wclosed <=> wpc \in {"send", "done"}
    /\ wclosed => pipe = <<>>

C18_Witness ==
    /\ errch = <<ErrPullImage>>
    /\ wclosed
    /\ pc = "display"
    /\ written = 1

\* C19: once PullDockerImage has returned, a worker that has not finished
\* can still take a step: it is not blocked for good in a write to the pipe
C19_WorkerNeverStuck ==
    (pc = "returned" /\ WorkerStarted /\ wpc # "done") => ENABLED Worker


RemoveCalls == {i \in 1..Len(bcalls) : bcalls[i].op = "RemoveContainer"}

\* C15: a container that was created is removed by exactly one
\* RemoveContainer call before GetBridgeIp returns, whichever way it
\* returns, and without a container no RemoveContainer call is made
C15_CreatedContainerRemovedOnce ==
    /\ Cardinality(RemoveCalls) <= 1
    /\ \A i \in RemoveCalls :
          /\ container # ""
          /\ bcalls[i].id = container
          /\ i = Len(bcalls)
          /\ bpc = "returned"
    /\ (bpc = "returned" /\ container # "") => Cardinality(RemoveCalls) = 1
    /\ container = "" => RemoveCalls = {}

C15_Witness ==
    /\ bpc = "returned"
    /\ berr = ErrStart
    /\ container = "c2"
    /\ bcalls = <<BCall("CreateContainer", "c2"), BCall("StartContainer", "c2"),
                  BCall("RemoveContainer", "c2")>>

\* C16: the error GetBridgeIp returns is the first one that occurred; a
\* removal error is returned only when nothing failed before it
C16_EarliestErrorWins ==
    bpc = "returned" =>
        /\ berr = IF failures = <<>> THEN NoErr ELSE Head(failures)
        /\ berr = ErrRemove => failures = <<ErrRemove>>

C16_Witness ==
    /\ bpc = "returned"
    /\ failures = <<ErrInspect, ErrRemove>>
    /\ berr = ErrInspect


\* the local images with a RepoTag that image contains, and the first such
\* RepoTag of a local image
Matching == {i \in 1..Len(images) :
                \E j \in 1..Len(images[i]) : Contains(image, images[i][j])}
FirstMatch(i) ==
    images[i][Min({j \in 1..Len(images[i]) : Contains(image, images[i][j])})]
Rank(i) == Cardinality({k \in Matching : k <= i})

\* C20: listImagesInDocker returns one candidate for each local image that
\* has a RepoTag the target image contains, in the order of the images: the
\* first such RepoTag of that image, and nothing for its later ones; on a
\* listing error it returns a nil list
C20_FirstContainedTagPerImage ==
    pc \in {"registry", "checkerr"} =>
        IF localErr = NoErr
        THEN /\ Len(local) = Cardinality(Matching)
             /\ \A i \in Matching : local[Rank(i)] = FirstMatch(i)
             /\ \A k \in 1..Len(local) : Contains(image, local[k])
        ELSE local = <<>> /\ localErr = ErrListImages

C20_Witness ==
    /\ pc = "checkerr"
    /\ image = AllImage
    /\ images = <<<<New(Other, T100), New(App, T200)>>,
                  <<New(App, T100), New(App, T200)>>>>
    /\ localErr = NoErr
    /\ local = <<New(App, T200), New(App, T100)>>

====
